---- MODULE Spec2Model ----
(***************************************************************************)
(* A model of kettle.py, the command-line utility that inspects the three  *)
(* PDI configuration files kettle.properties, spoon.sh and shared.xml.     *)
(*                                                                         *)
(* One behaviour is one invocation of the tool against one filesystem.     *)
(* Text is a sequence of one-character strings, so that startswith, strip, *)
(* split and replace are computed the way Python computes them.  A path is *)
(* the pair <<directory, file name>>.  shared.xml is kept as its element   *)
(* tree: a sequence of connection elements, each a sequence of             *)
(* <<tag, text>> children; xmltodict's conversion of that tree to Python   *)
(* values is modelled by parse.                                            *)
(***************************************************************************)
EXTENDS Integers, Sequences, FiniteSets, TLC

VARIABLES fs, argv, pc, out, status, exc, calls

vars == <<fs, argv, pc, out, status, exc, calls>>

-----------------------------------------------------------------------------
(* Bounds *)

\* longest kettle.properties, in lines
MaxLines == 2

\* most connection elements in a shared.xml
MaxConns == 2

-----------------------------------------------------------------------------
(* Python's str operations *)

\* s.startswith(p)
StartsWith(s, p) == Len(p) <= Len(s) /\ SubSeq(s, 1, Len(p)) = p

RECURSIVE LStrip(_, _)
LStrip(s, c) == IF s # <<>> /\ Head(s) = c THEN LStrip(Tail(s), c) ELSE s

RECURSIVE RStrip(_, _)
RStrip(s, c) ==
    IF s # <<>> /\ s[Len(s)] = c THEN RStrip(SubSeq(s, 1, Len(s) - 1), c) ELSE s

\* s.strip(c) for a one-character c: every leading and trailing c is removed
Strip(s, c) == RStrip(LStrip(s, c), c)

\* the position of the first c in s, 0 when there is none
RECURSIVE IndexOf(_, _, _)
IndexOf(s, c, i) ==
    IF i > Len(s) THEN 0
    ELSE IF s[i] = c THEN i
    ELSE IndexOf(s, c, i + 1)

\* s.split(c) for a one-character c: s is cut at every occurrence of c
RECURSIVE Split(_, _)
Split(s, c) ==
    LET i == IndexOf(s, c, 1)
    IN  IF i = 0 THEN <<s>>
        ELSE <<SubSeq(s, 1, i - 1)>> \o Split(SubSeq(s, i + 1, Len(s)), c)

\* s.replace(old, new): every non-overlapping occurrence, left to right
RECURSIVE Replace(_, _, _)
Replace(s, old, new) ==
    IF s = <<>> THEN <<>>
    ELSE IF StartsWith(s, old)
         THEN new \o Replace(SubSeq(s, Len(old) + 1, Len(s)), old, new)
         ELSE <<Head(s)>> \o Replace(Tail(s), old, new)

\* iterating a text file: the lines, each keeping its line terminator
RECURSIVE ReadLines(_)
ReadLines(data) ==
    LET i == IndexOf(data, "\n", 1)
    IN  IF data = <<>> THEN <<>>
        ELSE IF i = 0 THEN <<data>>
        ELSE <<SubSeq(data, 1, i)>> \o ReadLines(SubSeq(data, i + 1, Len(data)))

RECURSIVE Flatten(_)
Flatten(ss) == IF ss = <<>> THEN <<>> ELSE Head(ss) \o Flatten(Tail(ss))

\* the sequences over S of length at most n
SeqUpTo(S, n) == UNION { [1..k -> S] : k \in 0..n }

-----------------------------------------------------------------------------
(* Python values *)

\* None, told apart from every text (a text holds one-character strings)
PyNone == <<"None">>

\* A dict is the sequence of its <<key, value>> items in insertion order.
HasKey(d, k) == \E i \in 1..Len(d) : d[i][1] = k

\* d.get(k): the value, None when the key is absent
Get(d, k) ==
    IF HasKey(d, k) THEN d[CHOOSE i \in 1..Len(d) : d[i][1] = k][2] ELSE PyNone

\* d[k] = v: an existing key keeps its place, a new key goes last
SetItem(d, k, v) ==
    IF HasKey(d, k)
    THEN [i \in 1..Len(d) |-> IF d[i][1] = k THEN <<k, v>> ELSE d[i]]
    ELSE Append(d, <<k, v>>)

-----------------------------------------------------------------------------
(* Program constants *)

\* the platform's default directory of the PDI installation
default_path == "data-integration"

default_match == <<"S", "T", "M">>

hidden_keys == {"access", "attributes", "servername", "data_tablespace", "index_tablespace"}

-----------------------------------------------------------------------------
(* The filesystems and command lines the model is checked over *)

Roots == {default_path, "."}

FileNames == {"kettle.properties", "spoon.sh", "shared.xml"}

\* filepath / "name"
JoinPath(filepath, name) == <<filepath, name>>

Paths == { JoinPath(r, n) : r \in Roots, n \in FileNames }

Absent == [exists |-> FALSE, data |-> <<>>]

File(data) == [exists |-> TRUE, data |-> data]

\* the lines a kettle.properties is made of, each with its line terminator
PropertyLines ==
    { <<"S", "T", "M", "_", "D", "B", "=", "p", "r", "o", "d", "\n">>,
      <<"O", "T", "H", "E", "R", "=", "x", "\n">>,
      <<"S", "T", "M", "_", "U", "=", "a", "=", "b", "\n">>,
      <<"S", "T", "M", "_", "F", "\n">> }

\* the file's text: up to MaxLines lines, the last one with or without its terminator
KettleTexts ==
    LET whole == { Flatten(ls) : ls \in SeqUpTo(PropertyLines, MaxLines) }
    IN  whole \cup { RStrip(t, "\n") : t \in whole }

SpoonText == <<"#", "!", "/", "b", "i", "n", "/", "s", "h", "\n">>

\* the connection elements of a shared.xml, each the sequence of its children
ConnectionElements ==
    { << <<"name", <<"D", "B", "1">>>>, <<"server", <<"$", "{", "D", "B", "1", "_", "N", "A", "M", "E", "}">>>>, <<"attributes", <<"x">>>> >>,
      << <<"name", <<"A">>>>, <<"server", <<"h", "o", "s", "t">>>>, <<"password", <<"s", "e", "c", "r", "e", "t">>>> >>,
      << <<"name", <<"B">>>>, <<"server", <<>> >>, <<"port", <<"5", "4", "3", "2">>>> >>,
      << <<"name", <<"D", "B", "1">>>>, <<"access", <<"x">>>>, <<"server", <<"$", "{", "N", "A", "M", "E", "_", "N", "A", "M", "E", "}">>>>, <<"password", <<"o", "l", "d">>>> >>,
      << <<"server", <<"h", "o", "s", "t">>>>, <<"port", <<"5", "4", "3", "2">>>> >> }

\* the element tree of a shared.xml: up to MaxConns connection elements
SharedDocs == SeqUpTo(ConnectionElements, MaxConns)

\* the directories: the three files of one PDI installation
Dirs ==
    { [n \in FileNames |-> Absent] }
    \cup { [n \in FileNames |-> IF n = "kettle.properties" THEN File(t) ELSE Absent] :
             t \in KettleTexts }
    \cup { [n \in FileNames |->
             IF n = "shared.xml" THEN File(d)
             ELSE IF n = "spoon.sh" THEN File(SpoonText)
             ELSE File(<<"S", "T", "M", "_", "D", "B", "=", "p", "r", "o", "d", "\n">>)] : d \in SharedDocs }

\* the values given to --match and to --connection
MatchArgs == { <<"S", "T", "M">>, <<"Z", "Z", "Z">>, <<"O", "T", "H", "E", "R">> }

ConnectionArgs == { <<>>, <<"D", "B", "1">>, <<"A">>, <<"B">>, <<"Z", "Z">> }

NotGiven == [given |-> FALSE, val |-> <<>>]

Given(v) == [given |-> TRUE, val |-> v]

NoArgs == [cmd |-> "", path |-> [given |-> FALSE, val |-> ""], match |-> NotGiven, edit |-> FALSE,
           show |-> FALSE, show_path |-> FALSE, list_connections |-> FALSE,
           connection |-> NotGiven]

PathArgs == { [given |-> FALSE, val |-> ""] } \cup { Given(r) : r \in Roots }

\* the command lines: a sub-command and the options it accepts
CommandLines ==
    { [NoArgs EXCEPT !.cmd = "kettle", !.path = p, !.match = m, !.edit = e,
                     !.show = s, !.show_path = v] :
        p \in PathArgs, m \in { NotGiven } \cup { Given(x) : x \in MatchArgs },
        e \in BOOLEAN, s \in BOOLEAN, v \in BOOLEAN }
    \cup { [NoArgs EXCEPT !.cmd = "spoon", !.path = p, !.edit = e, !.show = s,
                          !.show_path = v] :
        p \in PathArgs, e \in BOOLEAN, s \in BOOLEAN, v \in BOOLEAN }
    \cup { [NoArgs EXCEPT !.cmd = "shared", !.path = p, !.list_connections = l,
                          !.connection = c, !.show_path = v] :
        p \in PathArgs, l \in BOOLEAN,
        c \in { NotGiven } \cup { Given(x) : x \in ConnectionArgs }, v \in BOOLEAN }

-----------------------------------------------------------------------------
(* What is printed *)

\* one console.print or print: a line of text made of a fixed marker, the
\* path and the argument formatted into it, or a table with its rows
Message(kind, text, path, arg, rows) ==
    [kind |-> kind, text |-> text, path |-> path, arg |-> arg, rows |-> rows]

NoPath == <<>>

Line(text, path, arg) == Message("line", text, path, arg, <<>>)

Table(title, arg, rows) == Message("table", title, NoPath, arg, rows)

\* what a call of one of the program's functions does: what it prints, in
\* order, the exception it lets escape ("" for none), whether it ends in
\* sys.exit(), the value it returns and the filesystem it leaves
Result(fn, printed, raised, exits, value) ==
    [fn |-> fn, printed |-> printed, raised |-> raised, exits |-> exits,
     value |-> value, fs |-> fs]

-----------------------------------------------------------------------------
(* The functions of kettle.py *)

unable_to_locate(filename) == Line("UNABLE TO LOCATE", filename, <<>>)

\* open_in_editor without its sys.exit()
open_in_editor_no_exit(filename) ==
    [fn |-> "open_in_editor", printed |-> << Line("Opening", filename, <<>>) >>,
     raised |-> "", exits |-> FALSE, value |-> PyNone, fs |-> fs]

\* os.system runs the launcher through the shell and returns its exit
\* status: it raises nothing when the file is missing
open_in_editor(filename) ==
    Result("open_in_editor", << Line("Opening", filename, <<>>) >>, "", TRUE, PyNone)

show_contents(filename) ==
    IF fs[filename].exists
    THEN Result("show_contents",
                << Message("contents", "", NoPath, <<>>, << <<fs[filename].data>> >>) >>,
                "", TRUE, PyNone)
    ELSE Result("show_contents", << unable_to_locate(filename) >>, "", TRUE, PyNone)

\* validate_file that opens the path for writing before it looks for it
validate_file_touch(filename) ==
    [fn |-> "validate_file",
     printed |-> << IF fs[filename].exists THEN Line("FILE FOUND AT", filename, <<>>)
                    ELSE unable_to_locate(filename) >>,
     raised |-> "", exits |-> TRUE, value |-> PyNone,
     fs |-> [fs EXCEPT ![filename] = [exists |-> TRUE, data |-> @.data]]]

validate_file(filename) ==
    IF fs[filename].exists
    THEN Result("validate_file", << Line("FILE FOUND AT", filename, <<>>) >>, "", TRUE, PyNone)
    ELSE Result("validate_file", << unable_to_locate(filename) >>, "", TRUE, PyNone)

\* xmltodict's dict of one element: a child with no text becomes None
ElementDict(element) ==
    [i \in 1..Len(element) |->
        <<element[i][1], IF element[i][2] = <<>> THEN PyNone ELSE element[i][2]>>]

\* xmltodict.parse(raw_data)["sharedobjects"]["connection"]: an element
\* without children parses to None, which has no ["connection"]; one
\* connection child parses to its dict; only several parse to a list
parse(doc) ==
    IF Len(doc) = 0 THEN [raised |-> "TypeError", type |-> "NoneType", val |-> <<>>]
    ELSE IF Len(doc) = 1
         THEN [raised |-> "", type |-> "dict", val |-> ElementDict(doc[1])]
         ELSE [raised |-> "", type |-> "list",
               val |-> [i \in 1..Len(doc) |-> ElementDict(doc[i])]]

read_shared_xml(filename) ==
    IF fs[filename].exists
    THEN LET xml_data == parse(fs[filename].data)
         IN  Result("read_shared_xml", <<>>, xml_data.raised, FALSE,
                    [type |-> xml_data.type, val |-> xml_data.val])
    ELSE Result("read_shared_xml", << unable_to_locate(filename) >>, "", FALSE,
                [type |-> "NoneType", val |-> <<>>])

fail_message(text, arg, filename) == Line(text, filename, arg)

\* the rows of the list table: for connection in connections, for k, v in
\* connection.items(), a row of v wherever k is "name"
RECURSIVE NameRows(_)
NameRows(connections) ==
    IF connections = <<>> THEN <<>>
    ELSE LET connection == Head(connections)
             hits == SelectSeq(connection, LAMBDA item : item[1] = "name")
         IN  [i \in 1..Len(hits) |-> <<hits[i][2]>>] \o NameRows(Tail(connections))

show_all_connections(filename) ==
    IF fs[filename].exists
    THEN LET read == read_shared_xml(filename)
             connections == read.value
         IN  IF read.raised # ""
             THEN Result("show_all_connections", read.printed, read.raised, FALSE, PyNone)
             ELSE IF connections.type = "NoneType"
             \* for connection in None
             THEN Result("show_all_connections", read.printed, "TypeError", FALSE, PyNone)
             ELSE IF connections.type = "dict"
             \* iterating a dict gives its keys, and a str has no items()
             THEN Result("show_all_connections", read.printed, "AttributeError", FALSE, PyNone)
             ELSE Result("show_all_connections",
                         read.printed
                           \o << Table("Database Connections", <<>>, NameRows(connections.val)) >>,
                         "", TRUE, PyNone)
    ELSE Result("show_all_connections",
                << fail_message("NO DATABASE CONNECTIONS FOUND IN", <<>>, filename) >>,
                "", TRUE, PyNone)

\* the first loop of show_connection_details on one connection
WithPassword(connection) ==
    IF StartsWith(Get(connection, "server"), <<"$", "{">>)
    THEN SetItem(connection, "password",
                 Replace(Get(connection, "server"), <<"N", "A", "M", "E">>,
                         <<"P", "A", "S", "S", "W", "O", "R", "D">>))
    ELSE connection

\* the details comprehension without its test against hidden_keys
RECURSIVE DetailRows_all_fields(_, _)
DetailRows_all_fields(connections, db_name) ==
    IF connections = <<>> THEN <<>>
    ELSE LET connection == Head(connections)
             shown == SelectSeq(connection,
                        LAMBDA item : db_name = Get(connection, "name"))
         IN  shown \o DetailRows_all_fields(Tail(connections), db_name)

\* the rows of the detail table: for connection in connections, for k, v in
\* connection.items(), a row of k, v if the connection has the name and k is shown
RECURSIVE DetailRows(_, _)
DetailRows(connections, db_name) ==
    IF connections = <<>> THEN <<>>
    ELSE LET connection == Head(connections)
             shown == SelectSeq(connection,
                        LAMBDA item : db_name = Get(connection, "name")
                                      /\ item[1] \notin hidden_keys)
         IN  shown \o DetailRows(Tail(connections), db_name)

show_connection_details(filename, db_name) ==
    LET read == read_shared_xml(filename)
        connections == read.value
        updated == [i \in 1..Len(connections.val) |-> WithPassword(connections.val[i])]
        details == DetailRows(updated, db_name)
    IN  IF read.raised # ""
        THEN Result("show_connection_details", read.printed, read.raised, FALSE, PyNone)
        ELSE IF connections.type = "NoneType"
        \* for connection in None
        THEN Result("show_connection_details", read.printed, "TypeError", FALSE, PyNone)
        ELSE IF connections.type = "dict"
        \* iterating a dict gives its keys, and a str has no get()
        THEN Result("show_connection_details", read.printed, "AttributeError", FALSE, PyNone)
        ELSE IF \E i \in 1..Len(connections.val) : Get(connections.val[i], "server") = PyNone
        \* None has no startswith()
        THEN Result("show_connection_details", read.printed, "AttributeError", FALSE, PyNone)
        ELSE IF \E i \in 1..Len(updated) : ~HasKey(updated[i], "name")
        \* connection["name"]
        THEN Result("show_connection_details", read.printed, "KeyError", FALSE, PyNone)
        ELSE IF details # <<>>
        THEN Result("show_connection_details",
                    read.printed
                      \o << Table("Database Connection Properties for", db_name, details) >>,
                    "", TRUE, PyNone)
        ELSE Result("show_connection_details",
                    read.printed
                      \o << fail_message("DATABASE CONNECTION NOT FOUND IN", db_name, filename) >>,
                    "", TRUE, PyNone)

\* line.strip("\n").split("=")
SplitLine(line) == Split(Strip(line, "\n"), "=")

show_kettle_matches(filename, matching) ==
    IF fs[filename].exists
    THEN LET kept == SelectSeq(ReadLines(fs[filename].data),
                               LAMBDA line : StartsWith(line, matching))
         IN  IF \E i \in 1..Len(kept) : Len(SplitLine(kept[i])) # 2
             \* property_name, property_value = ... needs exactly two parts
             THEN Result("show_kettle_matches", <<>>, "ValueError", FALSE, PyNone)
             ELSE Result("show_kettle_matches",
                         << Table("Kettle Properties Containing", matching,
                                  [i \in 1..Len(kept) |-> SplitLine(kept[i])]) >>,
                         "", FALSE, PyNone)
    ELSE Result("show_kettle_matches", << unable_to_locate(filename) >>, "", FALSE, PyNone)

nothing_to_do == Result("print", << Line("Nothing to do. Exiting. . .", NoPath, <<>>) >>,
                        "", FALSE, PyNone)

-----------------------------------------------------------------------------
(* The state of one invocation *)

\* fs      what each path holds
\* argv    the command line, as given
\* pc      the statement of the sub-command's function that runs next
\* out     what was printed so far
\* status  "running", then the way the process ended: "exit0" or "exit1"
\* exc     the exception that ended the process, "" for none
\* calls   the functions the sub-command called so far

Init ==
    /\ \E r \in Roots, dir \in Dirs :
          fs = [p \in Paths |-> IF p[1] = r THEN dir[p[2]] ELSE Absent]
    /\ argv = NoArgs
    /\ pc = "parse"
    /\ out = <<>>
    /\ status = "running"
    /\ exc = ""
    /\ calls = <<>>

\* the options as the sub-command receives them, typer's defaults filled in
filepath == IF argv.path.given THEN argv.path.val ELSE default_path

match == IF argv.match.given THEN argv.match.val ELSE default_match

connection == IF argv.connection.given THEN argv.connection.val ELSE <<>>

kettle_properties == JoinPath(filepath, "kettle.properties")

spoon_sh == JoinPath(filepath, "spoon.sh")

shared_xml == JoinPath(filepath, "shared.xml")

\* typer parses the command line and calls the sub-command's function
invoke ==
    /\ pc = "parse"
    /\ \E line \in CommandLines :
          /\ argv' = line
          /\ pc' = IF line.cmd = "shared" THEN "list_connections" ELSE "edit"
    /\ UNCHANGED <<fs, out, status, exc, calls>>

\* a statement that calls a function: an escaping exception ends the process
\* with status 1, sys.exit() ends it with status 0, and a function that
\* returns hands control to the next statement; returning from the
\* sub-command's function ends the process with status 0
Call(r, next) ==
    /\ out' = out \o r.printed
    /\ calls' = Append(calls, r.fn)
    /\ fs' = r.fs
    /\ exc' = r.raised
    /\ pc' = IF r.raised # "" \/ r.exits THEN "done" ELSE next
    /\ status' = IF r.raised # "" THEN "exit1"
                 ELSE IF r.exits \/ next = "done" THEN "exit0"
                 ELSE status
    /\ UNCHANGED argv

\* an if whose condition is false
Skip(next) ==
    /\ pc' = next
    /\ UNCHANGED <<fs, argv, out, status, exc, calls>>

kettle_edit ==
    /\ argv.cmd = "kettle" /\ pc = "edit"
    /\ IF argv.edit THEN Call(open_in_editor(kettle_properties), "show") ELSE Skip("show")

kettle_show ==
    /\ argv.cmd = "kettle" /\ pc = "show"
    /\ IF argv.show THEN Call(show_contents(kettle_properties), "show_path")
       ELSE Skip("show_path")

kettle_show_path ==
    /\ argv.cmd = "kettle" /\ pc = "show_path"
    /\ IF argv.show_path THEN Call(validate_file(kettle_properties), "default")
       ELSE Skip("default")

kettle_matches ==
    /\ argv.cmd = "kettle" /\ pc = "default"
    /\ Call(show_kettle_matches(kettle_properties, match), "done")

kettle == kettle_edit \/ kettle_show \/ kettle_show_path \/ kettle_matches

spoon_edit ==
    /\ argv.cmd = "spoon" /\ pc = "edit"
    /\ IF argv.edit THEN Call(open_in_editor(spoon_sh), "show") ELSE Skip("show")

spoon_show ==
    /\ argv.cmd = "spoon" /\ pc = "show"
    /\ IF argv.show THEN Call(show_contents(spoon_sh), "show_path") ELSE Skip("show_path")

spoon_show_path ==
    /\ argv.cmd = "spoon" /\ pc = "show_path"
    /\ IF argv.show_path THEN Call(validate_file(spoon_sh), "default") ELSE Skip("default")

spoon_nothing ==
    /\ argv.cmd = "spoon" /\ pc = "default"
    /\ Call(nothing_to_do, "done")

spoon == spoon_edit \/ spoon_show \/ spoon_show_path \/ spoon_nothing

shared_list_connections ==
    /\ argv.cmd = "shared" /\ pc = "list_connections"
    /\ IF argv.list_connections THEN Call(show_all_connections(shared_xml), "connection")
       ELSE Skip("connection")

\* if connection is not None: an empty string passes
shared_connection_is_not_none ==
    /\ argv.cmd = "shared" /\ pc = "connection"
    /\ Call(show_connection_details(shared_xml, connection), "show_path")

\* if connection: an empty string is false
shared_connection ==
    /\ argv.cmd = "shared" /\ pc = "connection"
    /\ IF connection # <<>>
       THEN Call(show_connection_details(shared_xml, connection), "show_path")
       ELSE Skip("show_path")

shared_show_path ==
    /\ argv.cmd = "shared" /\ pc = "show_path"
    /\ IF argv.show_path THEN Call(validate_file(shared_xml), "default") ELSE Skip("default")

shared_nothing ==
    /\ argv.cmd = "shared" /\ pc = "default"
    /\ Call(nothing_to_do, "done")

shared == shared_list_connections \/ shared_connection \/ shared_show_path \/ shared_nothing

Next == invoke \/ kettle \/ spoon \/ shared

Spec == Init /\ [][Next]_vars

-----------------------------------------------------------------------------
(* Vocabulary of the properties *)

Done == pc = "done"

\* the file the sub-command is about
TargetFile ==
    JoinPath(filepath,
             CASE argv.cmd = "kettle" -> "kettle.properties"
               [] argv.cmd = "spoon" -> "spoon.sh"
               [] OTHER -> "shared.xml")

\* the one function the invocation called
Ran(fn) == Done /\ calls = <<fn>>

Tables == { i \in 1..Len(out) : out[i].kind = "table" }

Printed(text) == \E i \in 1..Len(out) : out[i].kind = "line" /\ out[i].text = text

\* the rows of every printed table
RowsShown == UNION { { out[i].rows[j] : j \in 1..Len(out[i].rows) } : i \in Tables }

-----------------------------------------------------------------------------
(* C1, as claimed: whenever the target file is absent, whatever the
   sub-command and its flags, the invocation prints a message and the
   process ends with exit status 0, never with an unhandled exception. *)
C1_AbsentFileExitsZero ==
    (Done /\ ~fs[TargetFile].exists) => (status = "exit0" /\ exc = "" /\ out # <<>>)

(* C2, as claimed: on a path that does not exist, each of open_in_editor,
   show_contents and validate_file prints the message that begins with
   UNABLE TO LOCATE and holds the path, nothing else, and the invocation
   exits with status 0. *)
C2_AbsentPathNotFoundMessage ==
    \A fn \in {"open_in_editor", "show_contents", "validate_file"} :
        (Ran(fn) /\ ~fs[TargetFile].exists) =>
            (out = << Line("UNABLE TO LOCATE", TargetFile, <<>>) >> /\ status = "exit0")

\* the function the statements of a sub-command reach first: the first flag
\* in the fixed order whose value is true or non-empty, else the default step
FirstAction ==
    IF argv.cmd = "shared"
    THEN IF argv.list_connections THEN "show_all_connections"
         ELSE IF argv.connection.given /\ argv.connection.val # <<>>
         THEN "show_connection_details"
         ELSE IF argv.show_path THEN "validate_file"
         ELSE "print"
    ELSE IF argv.edit THEN "open_in_editor"
         ELSE IF argv.show THEN "show_contents"
         ELSE IF argv.show_path THEN "validate_file"
         ELSE IF argv.cmd = "kettle" THEN "show_kettle_matches"
         ELSE "print"

(* C3: terminal actions short-circuit.  At most one function is called in an
   invocation; once it has been called the invocation is over; it is the
   first one in the fixed order whose flag is set (--edit, --show,
   --show-path; --list-connections, --connection, --show-path), and the
   output holds the output of that one action only: at most one message, and
   the default step's output never follows an action's. *)
C3_TerminalActionsShortCircuit ==
    /\ Len(calls) <= 1
    /\ Len(out) <= 1
    /\ calls # <<>> => (Done /\ status # "running" /\ calls[1] = FirstAction)
    /\ (Done /\ FirstAction # "print") => ~Printed("Nothing to do. Exiting. . .")
    /\ (Done /\ argv.cmd = "kettle" /\ FirstAction # "show_kettle_matches") => Tables = {}

\* every flag of a sub-command given at once, and the invocation over
C3_Witness ==
    /\ Done
    /\ \/ argv.edit /\ argv.show /\ argv.show_path /\ calls = <<"open_in_editor">>
       \/ argv.list_connections /\ argv.connection.val # <<>> /\ argv.show_path
          /\ calls = <<"show_all_connections">>

\* the lines of the target file that start with the prefix
KeptLines == SelectSeq(ReadLines(fs[TargetFile].data), LAMBDA line : StartsWith(line, match))

(* C4, as claimed: the properties matcher on an existing file in which no
   line starts with the prefix reports that no lines were found and renders
   no table, not even an empty one. *)
C4_NoMatchNoTable ==
    (Ran("show_kettle_matches") /\ fs[TargetFile].exists /\ KeptLines = <<>>) =>
        (Tables = {} /\ out # <<>>)

\* a line without its trailing newline, cut at its first "="
SplitAtFirst(line) ==
    LET text == IF line # <<>> /\ line[Len(line)] = "\n"
                THEN SubSeq(line, 1, Len(line) - 1) ELSE line
        i == IndexOf(text, "=", 1)
    IN  <<SubSeq(text, 1, i - 1), SubSeq(text, i + 1, Len(text))>>

(* C5, as claimed: on an existing file whose matched lines each hold an "=",
   the matcher completes without failure and the rows of its table are, in
   file order, one (name, value) pair per line that starts with the prefix:
   the text before the line's first "=" and the text after it, the trailing
   newline stripped; this includes lines with more than one "=". *)
C5_RowsAreMatchedLines ==
    (/\ Ran("show_kettle_matches")
     /\ fs[TargetFile].exists
     /\ \A i \in 1..Len(KeptLines) : IndexOf(KeptLines[i], "=", 1) # 0) =>
        /\ status = "exit0"
        /\ Len(out) = 1
        /\ out[1].kind = "table"
        /\ out[1].rows = [i \in 1..Len(KeptLines) |-> SplitAtFirst(KeptLines[i])]

\* the sub-command's last statement was reached and ran
DefaultRan ==
    Done /\ calls = << IF argv.cmd = "kettle" THEN "show_kettle_matches" ELSE "print" >>

\* an action flag is on the command line
ActionFlagGiven ==
    argv.edit \/ argv.show \/ argv.show_path \/ argv.list_connections
        \/ argv.connection.given

\* an action flag is on the command line with a value that is not empty
ActionFlagSet ==
    argv.edit \/ argv.show \/ argv.show_path \/ argv.list_connections
        \/ (argv.connection.given /\ argv.connection.val # <<>>)

(* C6, as claimed: the final step of a sub-command runs if and only if none
   of its action flags was given, and an invocation that gave an action flag
   never prints "Nothing to do". *)
C6_DefaultIffNoFlagGiven ==
    Done => /\ DefaultRan <=> ~ActionFlagGiven
            /\ ActionFlagGiven => ~Printed("Nothing to do. Exiting. . .")

(* C6, amended: the final step of a sub-command runs if and only if no
   action flag was given with a true or non-empty value (--connection with
   an empty string counts as not given).  For spoon and shared that step
   prints "Nothing to do" and nothing else and the process exits 0, with or
   without --path; for kettle it is the properties matcher on
   kettle.properties with the given prefix, or "STM" when none was given.
   An invocation with such a flag never prints "Nothing to do". *)
C6_DefaultIffNoFlagSet ==
    Done =>
        /\ DefaultRan <=> ~ActionFlagSet
        /\ ActionFlagSet => ~Printed("Nothing to do. Exiting. . .")
        /\ (DefaultRan /\ argv.cmd # "kettle") =>
              /\ out = << Line("Nothing to do. Exiting. . .", NoPath, <<>>) >>
              /\ status = "exit0"
        /\ (DefaultRan /\ argv.cmd = "kettle" /\ status = "exit0") =>
              /\ Len(out) = 1
              /\ out[1].kind = "table" =>
                    out[1].arg = (IF argv.match.given THEN argv.match.val
                                  ELSE <<"S", "T", "M">>)
              /\ out[1].kind = "line" =>
                    out[1] = Line("UNABLE TO LOCATE", TargetFile, <<>>)

\* shared --connection "" falls through to the last statement
C6_Witness ==
    /\ Done
    /\ argv.cmd = "shared"
    /\ argv.connection.given /\ argv.connection.val = <<>>
    /\ Printed("Nothing to do. Exiting. . .")

\* the connection elements of the target shared.xml
Doc == fs[TargetFile].data

\* the text of the first child of a connection element with the tag
ChildText(element, tag) ==
    element[CHOOSE i \in 1..Len(element) : element[i][1] = tag][2]

HasChild(element, tag) == \E i \in 1..Len(element) : element[i][1] = tag

(* C7, as claimed: list mode on an existing document of n >= 1 connection
   elements, each with a name, prints one table whose rows are the
   connections' names in document order and nothing else, and exits 0; on a
   missing file it prints the NO DATABASE CONNECTIONS FOUND message and
   exits 0. *)
C7_ListShowsEveryName ==
    /\ (Ran("show_all_connections") /\ ~fs[TargetFile].exists) =>
          /\ status = "exit0"
          /\ out = << Line("NO DATABASE CONNECTIONS FOUND IN", TargetFile, <<>>) >>
    /\ (/\ Ran("show_all_connections")
        /\ fs[TargetFile].exists
        /\ Len(Doc) >= 1
        /\ \A i \in 1..Len(Doc) : HasChild(Doc[i], "name")) =>
          /\ status = "exit0"
          /\ Len(out) = 1
          /\ out[1].kind = "table"
          /\ out[1].rows = [i \in 1..Len(Doc) |-> << ChildText(Doc[i], "name") >>]

\* the connection elements of the document with the requested name
Requested == { i \in 1..Len(Doc) : HasChild(Doc[i], "name")
                                    /\ ChildText(Doc[i], "name") = connection }

\* the server value of a connection element as the program reads it
ServerOf(element) == Get(ElementDict(element), "server")

(* C8, as claimed: detail mode on a document of several connections, each
   with a name, the requested ones with a server, and whatever the fields of
   the others, exits 0; when no connection has the
   requested name it prints the not-found message naming the connection and
   the file and no table; when one has, it prints the table and not the
   not-found message. *)
C8_DetailFoundOrNotFound ==
    (/\ Ran("show_connection_details")
     /\ fs[TargetFile].exists
     /\ Len(Doc) >= 2
     /\ \A i \in 1..Len(Doc) : HasChild(Doc[i], "name")
     /\ \A i \in Requested : ServerOf(Doc[i]) # PyNone) =>
        /\ status = "exit0"
        /\ Requested = {} =>
              out = << Line("DATABASE CONNECTION NOT FOUND IN", TargetFile, connection) >>
        /\ Requested # {} =>
              (Len(out) = 1 /\ out[1].kind = "table" /\ out[1].arg = connection)

(* C9: validate_file prints exactly one message per call, chosen by the
   existence of the path: FILE FOUND AT and the path when it exists, UNABLE
   TO LOCATE and the path when it does not; the process then exits 0 and the
   filesystem is as it was. *)
C9_ValidateFileOneMessage ==
    [][ calls' = Append(calls, "validate_file") =>
          /\ out' = Append(out, IF fs[TargetFile].exists
                                THEN Line("FILE FOUND AT", TargetFile, <<>>)
                                ELSE Line("UNABLE TO LOCATE", TargetFile, <<>>))
          /\ pc' = "done"
          /\ status' = "exit0"
          /\ fs' = fs ]_vars

\* --show-path on a path that does not exist
C9_Witness ==
    /\ Ran("validate_file")
    /\ ~fs[TargetFile].exists
    /\ out = << Line("UNABLE TO LOCATE", TargetFile, <<>>) >>
    /\ status = "exit0"

DerivedPassword(server) ==
    Replace(server, <<"N", "A", "M", "E">>, <<"P", "A", "S", "S", "W", "O", "R", "D">>)

(* C10, as claimed: in detail mode, for each connection with the requested
   name whose server value begins with "${", the output holds a password row
   whose value is the server value with NAME replaced by PASSWORD; and every
   password row shown is such a derived value or, for a requested connection
   whose server value does not begin with "${", the document's own password
   field. *)
C10_DerivedPasswordShown ==
    (Ran("show_connection_details") /\ fs[TargetFile].exists) =>
        /\ \A i \in Requested :
              StartsWith(ServerOf(Doc[i]), <<"$", "{">>) =>
                  <<"password", DerivedPassword(ServerOf(Doc[i]))>> \in RowsShown
        /\ \A row \in RowsShown :
              row[1] = "password" =>
                  \E i \in Requested :
                      row[2] = IF StartsWith(ServerOf(Doc[i]), <<"$", "{">>)
                               THEN DerivedPassword(ServerOf(Doc[i]))
                               ELSE IF HasChild(Doc[i], "password")
                               THEN ChildText(Doc[i], "password")
                               ELSE PyNone

\* the fields the detail table never shows
HiddenFields == {"access", "attributes", "servername", "data_tablespace", "index_tablespace"}

\* the (field, value) pairs of a connection element as the document gives them
DocumentFields(element) ==
    [k \in 1..Len(element) |->
        <<element[k][1], IF element[k][2] = <<>> THEN PyNone ELSE element[k][2]>>]

\* the same pairs once the password is derived: where the server value begins
\* with "${", the password field holds the derived value, in the place of the
\* document's own password field or, when it has none, after the last field
FieldsWithDerivedPassword(element) ==
    IF StartsWith(ServerOf(element), <<"$", "{">>)
    THEN LET derived == <<"password", DerivedPassword(ServerOf(element))>>
         IN  IF HasChild(element, "password")
             THEN [k \in 1..Len(element) |->
                     IF element[k][1] = "password" THEN derived
                     ELSE DocumentFields(element)[k]]
             ELSE DocumentFields(element) \o << derived >>
    ELSE DocumentFields(element)

\* the pairs that are not hidden, of the connections of the document from
\* the i-th on that have the requested name, in document order
RECURSIVE ShownFrom(_, _)
ShownFrom(i, derive) ==
    IF i > Len(Doc) THEN <<>>
    ELSE (IF i \in Requested
          THEN SelectSeq(IF derive THEN FieldsWithDerivedPassword(Doc[i])
                         ELSE DocumentFields(Doc[i]),
                         LAMBDA pair : pair[1] \notin HiddenFields)
          ELSE <<>>) \o ShownFrom(i + 1, derive)

\* detail mode printed its table
DetailTablePrinted ==
    Ran("show_connection_details") /\ Len(out) = 1 /\ out[1].kind = "table"

(* C11, as claimed: the rows of the table printed in detail mode are exactly
   the (field, value) pairs of the document's connections with the requested
   name, minus the hidden fields. *)
C11_RowsAreDocumentFields ==
    DetailTablePrinted => out[1].rows = ShownFrom(1, FALSE)

(* C11, amended: the rows of the table printed in detail mode are exactly, in
   document order, the (field, value) pairs of the connections whose name
   equals the requested name, with the password field derived for those whose
   server value begins with "${", minus the fields of the hidden list; no
   hidden field appears as a row, and every row is a field of a connection
   with the requested name. *)
C11_RowsAreProjectedFields ==
    DetailTablePrinted =>
        /\ out[1].rows = ShownFrom(1, TRUE)
        /\ \A row \in RowsShown : row[1] \notin HiddenFields
        /\ \A row \in RowsShown :
              \E i \in Requested :
                  \E k \in 1..Len(FieldsWithDerivedPassword(Doc[i])) :
                      row = FieldsWithDerivedPassword(Doc[i])[k]

\* the table of a connection that has a hidden field, printed from a document
\* that also holds a connection with another name
C11_Witness ==
    /\ DetailTablePrinted
    /\ status = "exit0"
    /\ \E i \in Requested : \E k \in 1..Len(Doc[i]) : Doc[i][k][1] \in HiddenFields
    /\ \E j \in 1..Len(Doc) : j \notin Requested

====
